---- MODULE Spec2Model ----
(***************************************************************************)
(* Model of the to-do program (src/todo/src/lib.rs): the instruction       *)
(* codec TodoInstruction::unpack, the two handlers process_new_todo and    *)
(* process_mark_done, and the Borsh encoding of the account data they read *)
(* and write.  Buffers are sequences of bytes (0..255); integers wider     *)
(* than TLC's are kept as their little-endian bytes.                       *)
(***************************************************************************)
EXTENDS Integers, Sequences, FiniteSets, TLC

VARIABLES
    data,     \* todo_account.data as the runtime holds it between instructions
    owner,    \* todo_account.owner
    ix,       \* the instruction last processed: payload, account keys, clock
    result,   \* what process_instruction returned for ix ("none" before any)
    buf,      \* the data buffer as the handler left it when it returned
    pre,      \* the data buffer when the handler was entered
    pre_owner, \* todo_account.owner when the handler was entered
    cpi       \* TRUE iff the handler reached invoke(create_account) for ix

vars == <<data, owner, ix, result, buf, pre, pre_owner, cpi>>

----------------------------------------------------------------------------
(* Bounds of the model.                                                    *)

\* Longest collection an initial storage region holds.
MaxItems == 2
\* Most zero bytes that follow the encoded collection in an initial region.
MaxPad == 1

----------------------------------------------------------------------------
(* Bytes and fixed-width integers.                                         *)

Byte == 0..255

RECURSIVE Zeros(_)
Zeros(n) == IF n <= 0 THEN <<>> ELSE <<0>> \o Zeros(n - 1)

\* u32::to_le_bytes, for n < 2^31.
Le32(n) ==
    <<n % 256, (n \div 256) % 256, (n \div 65536) % 256, (n \div 16777216) % 256>>

\* u32::from_le_bytes; a value of 2^31 or more is reported as 2^31 - 1, which
\* is larger than any buffer of the model, so every comparison with a buffer
\* length comes out as it does for the exact value.
U32(b) ==
    IF b[4] >= 128 THEN 2147483647
    ELSE b[1] + 256 * b[2] + 65536 * b[3] + 16777216 * b[4]

\* `clock.unix_timestamp as u64`: the two's-complement bits of an i64, as the
\* eight little-endian bytes of the resulting u64 (for |t| < 2^31).
AsU64(t) ==
    <<t % 256, (t \div 256) % 256, (t \div 65536) % 256, (t \div 16777216) % 256>>
    \o (IF t < 0 THEN <<255, 255, 255, 255>> ELSE <<0, 0, 0, 0>>)

\* The u64 with numeric value n (0 <= n < 2^31), as its little-endian bytes.
U64Of(n) == Le32(n) \o <<0, 0, 0, 0>>

----------------------------------------------------------------------------
(* String::from_utf8: well-formed UTF-8 (RFC 3629 byte sequences).         *)

IsCont(b) == b >= 128 /\ b <= 191

\* Width of the UTF-8 sequence that starts at s[i], 0 when none does.
Utf8Width(s, i) ==
    LET b == s[i]
        n == Len(s) - i + 1
    IN  IF b < 128 THEN 1
        ELSE IF b >= 194 /\ b <= 223
             THEN IF n >= 2 /\ IsCont(s[i + 1]) THEN 2 ELSE 0
        ELSE IF b >= 224 /\ b <= 239
             THEN IF /\ n >= 3
                     /\ IsCont(s[i + 1]) /\ IsCont(s[i + 2])
                     /\ (b = 224 => s[i + 1] >= 160)
                     /\ (b = 237 => s[i + 1] <= 159)
                  THEN 3 ELSE 0
        ELSE IF b >= 240 /\ b <= 244
             THEN IF /\ n >= 4
                     /\ IsCont(s[i + 1]) /\ IsCont(s[i + 2]) /\ IsCont(s[i + 3])
                     /\ (b = 240 => s[i + 1] >= 144)
                     /\ (b = 244 => s[i + 1] <= 143)
                  THEN 4 ELSE 0
        ELSE 0

RECURSIVE Utf8From(_, _)
Utf8Next(s, i, w) == IF w = 0 THEN FALSE ELSE Utf8From(s, i + w)
Utf8From(s, i) == IF i > Len(s) THEN TRUE ELSE Utf8Next(s, i, Utf8Width(s, i))

IsUtf8(s) == Utf8From(s, 1)

----------------------------------------------------------------------------
(* Borsh encoding of String, Todo and TodoAccount.                         *)

\* <String as BorshSerialize>::serialize: u32 length, then the bytes.
SerString(s) == Le32(Len(s)) \o s

\* A Todo written with publish_date ahead of done.
SerTodo_date_first(t) ==
    SerString(t.name) \o t.publish_date \o <<IF t.done THEN 1 ELSE 0>>

\* <Todo as BorshSerialize>::serialize (derived): name, done, publish_date.
SerTodo(t) ==
    SerString(t.name) \o <<IF t.done THEN 1 ELSE 0>> \o t.publish_date

RECURSIVE SerTodos(_)
SerTodos(ts) == IF ts = <<>> THEN <<>> ELSE SerTodo(Head(ts)) \o SerTodos(Tail(ts))

\* <TodoAccount as BorshSerialize>::serialize (derived): Vec<Todo> is a u32
\* count followed by the elements.
SerTodoAccount(todos) == Le32(Len(todos)) \o SerTodos(todos)

\* A failed read.
Bad == [ok |-> FALSE]

\* <String as BorshDeserialize>::deserialize reading b from position p (1-based):
\* the u32 length, that many bytes, and the UTF-8 check.  pos is the position
\* after the string.
DeStringBytes(b, p, n) ==
    IF n > Len(b) - (p + 3) THEN Bad
    ELSE IF IsUtf8(SubSeq(b, p + 4, p + 3 + n))
         THEN [ok |-> TRUE, val |-> SubSeq(b, p + 4, p + 3 + n), pos |-> p + 4 + n]
         ELSE Bad

DeString(b, p) ==
    IF p + 3 > Len(b) THEN Bad ELSE DeStringBytes(b, p, U32(SubSeq(b, p, p + 3)))

\* <Todo as BorshDeserialize>::deserialize (derived): a bool is the byte 0 or 1,
\* any other byte is an error; a u64 is eight bytes.
DeTodoFields(b, name, q) ==
    IF q + 8 > Len(b) THEN Bad
    ELSE IF b[q] \notin {0, 1} THEN Bad
    ELSE [ok  |-> TRUE,
          val |-> [name |-> name, done |-> (b[q] = 1),
                   publish_date |-> SubSeq(b, q + 1, q + 8)],
          pos |-> q + 9]

DeTodoNamed(b, s) == IF ~s.ok THEN Bad ELSE DeTodoFields(b, s.val, s.pos)

DeTodo(b, p) == DeTodoNamed(b, DeString(b, p))

\* The n elements of a Vec<Todo>, read one after another.
RECURSIVE DeTodos(_, _, _, _)
DeTodosNext(b, t, n, acc) ==
    IF ~t.ok THEN Bad ELSE DeTodos(b, t.pos, n - 1, Append(acc, t.val))

DeTodos(b, p, n, acc) ==
    IF n = 0 THEN [ok |-> TRUE, val |-> acc, pos |-> p]
    ELSE DeTodosNext(b, DeTodo(b, p), n, acc)

\* <TodoAccount as BorshDeserialize>::deserialize (derived).
DeTodoAccount(b) ==
    IF Len(b) < 4 THEN Bad
    ELSE DeTodos(b, 5, U32(SubSeq(b, 1, 4)), <<>>)

\* BorshDeserialize::try_from_slice: deserialize, then fail unless every byte
\* of the slice has been read.
AllRead(b, r) ==
    IF r.ok /\ r.pos = Len(b) + 1 THEN [ok |-> TRUE, todos |-> r.val] ELSE Bad

try_from_slice(b) == AllRead(b, DeTodoAccount(b))

\* `x.serialize(&mut &mut data[..])`: the encoding is written through
\* io::Write for &mut [u8], which copies what fits and fails when the slice is
\* full.  buf is the slice afterwards.
write_all(e, slice) ==
    IF Len(e) <= Len(slice)
    THEN [ok |-> TRUE, buf |-> e \o SubSeq(slice, Len(e) + 1, Len(slice))]
    ELSE [ok |-> FALSE, buf |-> SubSeq(e, 1, Len(slice))]

serialize(todos, slice) == write_all(SerTodoAccount(todos), slice)

----------------------------------------------------------------------------
(* Identities and ProgramError codes.                                      *)

\* The executing program's identity (the program_id argument).
program_id == "program"
\* solana_program::system_program::ID and the Clock sysvar's id, as account keys.
system_program_ID == "system_program"
clock_ID == "clock"

\* The spec's error kinds, as the ProgramError each is returned as.
MalformedInstruction == "InvalidInstructionData"
PermissionDenied == "IncorrectProgramId"
CorruptState == "InvalidAccountData"
ItemNotFound == "InvalidInstructionData"
AlreadyDone == "InvalidAccountData"

\* Size of the account that process_new_todo asks the system program for.
account_space == 1024

----------------------------------------------------------------------------
(* Instruction codec.                                                      *)

\* unpack with a catch-all arm that takes every variant but 0 for MarkDone.
unpack_variant_catch_all(variant, todo) ==
    IF todo.ok
    THEN [ok |-> TRUE, kind |-> (IF variant = 0 THEN "NewTodo" ELSE "MarkDone"),
          todo |-> todo.val]
    ELSE [ok |-> FALSE, err |-> "InvalidInstructionData"]

unpack_variant(variant, todo) ==
    IF variant = 0
    THEN IF todo.ok THEN [ok |-> TRUE, kind |-> "NewTodo", todo |-> todo.val]
         ELSE [ok |-> FALSE, err |-> "InvalidInstructionData"]
    ELSE IF variant = 1
    THEN IF todo.ok THEN [ok |-> TRUE, kind |-> "MarkDone", todo |-> todo.val]
         ELSE [ok |-> FALSE, err |-> "InvalidInstructionData"]
    ELSE [ok |-> FALSE, err |-> "InvalidInstructionData"]

\* TodoInstruction::unpack: the first byte selects the variant, the rest is
\* read with String::deserialize (bytes after the string are not looked at).
unpack(input) ==
    IF input = <<>> THEN [ok |-> FALSE, err |-> "InvalidInstructionData"]
    ELSE unpack_variant(Head(input), DeString(Tail(input), 1))

----------------------------------------------------------------------------
(* Handlers.  Each yields the code returned, the data buffer and the owner *)
(* of the to-do account when it returns, and whether it called invoke.     *)

Returned(res, b, o, c) == [res |-> res, buf |-> b, owner |-> o, cpi |-> c]

\* solana_program::program::invoke as process_new_todo calls it: before the
\* instruction is handed to the runtime, every account it names as writable
\* must be free to borrow mutably, else AccountBorrowFailed.  create_account
\* names the new account writable.
invoke(data_borrowed) == IF data_borrowed THEN "AccountBorrowFailed" ELSE "Ok"

\* The result of the write-back that ends both handlers.
Stored(w, acc_owner, c) ==
    Returned(IF w.ok THEN "Ok" ELSE "BorshIoError", w.buf, acc_owner, c)

\* The tail of process_new_todo, from the ownership check on: todos is the
\* decoded (or new, empty) list, slice the borrowed data buffer.
push_and_store(todos, slice, acc_owner, todo_name, current_timestamp, c) ==
    IF acc_owner # program_id THEN Returned("IncorrectProgramId", slice, acc_owner, c)
    ELSE Stored(serialize(Append(todos, [name |-> todo_name, done |-> FALSE,
                                         publish_date |-> current_timestamp]),
                          slice),
                acc_owner, c)

\* The branch of process_new_todo for an account with no data: the account is
\* created by the system program, with account_space zero bytes and the
\* program as its owner, and starts with an empty list.
create_and_store(created, acc_data, acc_owner, todo_name, current_timestamp) ==
    IF created # "Ok" THEN Returned(created, acc_data, acc_owner, TRUE)
    ELSE push_and_store(<<>>, Zeros(account_space), program_id,
                        todo_name, current_timestamp, TRUE)

\* The branch of process_new_todo for an account that has data.
decode_and_store(existing, acc_data, acc_owner, todo_name, current_timestamp) ==
    IF ~existing.ok THEN Returned("InvalidAccountData", acc_data, acc_owner, FALSE)
    ELSE push_and_store(existing.todos, acc_data, acc_owner,
                        todo_name, current_timestamp, FALSE)

\* process_new_todo reading the clock before it checks the system program.
process_new_todo_clock_first(accounts, todo_name, acc_data, acc_owner, unix_timestamp) ==
    IF Len(accounts) < 4 THEN Returned("NotEnoughAccountKeys", acc_data, acc_owner, FALSE)
    ELSE IF accounts[4] # clock_ID
         THEN Returned("InvalidArgument", acc_data, acc_owner, FALSE)
    ELSE IF accounts[3] # system_program_ID
         THEN Returned("IncorrectProgramId", acc_data, acc_owner, FALSE)
    ELSE IF acc_data = <<>>
         THEN create_and_store(invoke(TRUE), acc_data, acc_owner,
                               todo_name, AsU64(unix_timestamp))
         ELSE decode_and_store(try_from_slice(acc_data), acc_data, acc_owner,
                               todo_name, AsU64(unix_timestamp))

process_new_todo(accounts, todo_name, acc_data, acc_owner, unix_timestamp) ==
    IF Len(accounts) < 4 THEN Returned("NotEnoughAccountKeys", acc_data, acc_owner, FALSE)
    ELSE IF accounts[3] # system_program_ID
         THEN Returned("IncorrectProgramId", acc_data, acc_owner, FALSE)
    ELSE IF accounts[4] # clock_ID
         THEN Returned("InvalidArgument", acc_data, acc_owner, FALSE)
    ELSE IF acc_data = <<>>
         THEN \* the data.borrow_mut() of line 105 is still held at the invoke
              create_and_store(invoke(TRUE), acc_data, acc_owner,
                               todo_name, AsU64(unix_timestamp))
         ELSE decode_and_store(try_from_slice(acc_data), acc_data, acc_owner,
                               todo_name, AsU64(unix_timestamp))

\* find answering with the last element of that name instead of the first.
find_last(todos, todo_name) ==
    IF \E i \in 1..Len(todos) : todos[i].name = todo_name
    THEN CHOOSE i \in 1..Len(todos) :
            /\ todos[i].name = todo_name
            /\ \A j \in (i + 1)..Len(todos) : todos[j].name # todo_name
    ELSE 0

\* Iterator::find over todos: the index of the first element whose name is
\* todo_name, 0 when there is none.
find(todos, todo_name) ==
    IF \E i \in 1..Len(todos) : todos[i].name = todo_name
    THEN CHOOSE i \in 1..Len(todos) :
            /\ todos[i].name = todo_name
            /\ \A j \in 1..(i - 1) : todos[j].name # todo_name
    ELSE 0

\* mark_found without the ok_or: a name that is not found is left at that.
mark_found_absent_ok(todos, i, acc_data, acc_owner) ==
    IF i = 0 THEN Returned("Ok", acc_data, acc_owner, FALSE)
    ELSE IF todos[i].done THEN Returned("InvalidAccountData", acc_data, acc_owner, FALSE)
    ELSE Stored(serialize([todos EXCEPT ![i].done = TRUE], acc_data), acc_owner, FALSE)

\* mark_found without the test of todo.done: a done item is marked again.
mark_found_again(todos, i, acc_data, acc_owner) ==
    IF i = 0 THEN Returned("InvalidInstructionData", acc_data, acc_owner, FALSE)
    ELSE Stored(serialize([todos EXCEPT ![i].done = TRUE], acc_data), acc_owner, FALSE)

\* mark_found flipping the flag instead of setting it.
mark_found_toggle(todos, i, acc_data, acc_owner) ==
    IF i = 0 THEN Returned("InvalidInstructionData", acc_data, acc_owner, FALSE)
    ELSE Stored(serialize([todos EXCEPT ![i].done = ~todos[i].done], acc_data),
                acc_owner, FALSE)

\* process_mark_done once find has answered with index i.
mark_found(todos, i, acc_data, acc_owner) ==
    IF i = 0 THEN Returned("InvalidInstructionData", acc_data, acc_owner, FALSE)
    ELSE IF todos[i].done THEN Returned("InvalidAccountData", acc_data, acc_owner, FALSE)
    ELSE Stored(serialize([todos EXCEPT ![i].done = TRUE], acc_data), acc_owner, FALSE)

\* mark_decoded taking data that does not decode for an empty list.
mark_decoded_default(existing, todo_name, acc_data, acc_owner) ==
    IF ~existing.ok THEN mark_found(<<>>, 0, acc_data, acc_owner)
    ELSE mark_found(existing.todos, find(existing.todos, todo_name), acc_data, acc_owner)

\* process_mark_done once the account data has been read.
mark_decoded(existing, todo_name, acc_data, acc_owner) ==
    IF ~existing.ok THEN Returned("InvalidAccountData", acc_data, acc_owner, FALSE)
    ELSE mark_found(existing.todos, find(existing.todos, todo_name), acc_data, acc_owner)

\* process_mark_done with the ownership check moved behind the decoding, where
\* process_new_todo has it.
process_mark_done_decode_first(accounts, todo_name, acc_data, acc_owner) ==
    IF Len(accounts) < 1 THEN Returned("NotEnoughAccountKeys", acc_data, acc_owner, FALSE)
    ELSE IF ~try_from_slice(acc_data).ok
         THEN Returned("InvalidAccountData", acc_data, acc_owner, FALSE)
    ELSE IF acc_owner # program_id
         THEN Returned("IncorrectProgramId", acc_data, acc_owner, FALSE)
    ELSE mark_decoded(try_from_slice(acc_data), todo_name, acc_data, acc_owner)

process_mark_done(accounts, todo_name, acc_data, acc_owner) ==
    IF Len(accounts) < 1 THEN Returned("NotEnoughAccountKeys", acc_data, acc_owner, FALSE)
    ELSE IF acc_owner # program_id
         THEN Returned("IncorrectProgramId", acc_data, acc_owner, FALSE)
    ELSE mark_decoded(try_from_slice(acc_data), todo_name, acc_data, acc_owner)

\* process_instruction after unpack: the handler of the variant.
dispatch(instruction, accounts, acc_data, acc_owner, unix_timestamp) ==
    IF ~instruction.ok THEN Returned(instruction.err, acc_data, acc_owner, FALSE)
    ELSE IF instruction.kind = "NewTodo"
         THEN process_new_todo(accounts, instruction.todo, acc_data, acc_owner,
                               unix_timestamp)
         ELSE process_mark_done(accounts, instruction.todo, acc_data, acc_owner)

process_instruction(accounts, instruction_data, acc_data, acc_owner, unix_timestamp) ==
    dispatch(unpack(instruction_data), accounts, acc_data, acc_owner, unix_timestamp)

----------------------------------------------------------------------------
(* Storage regions and instructions the model draws from.                  *)

\* Item names, as UTF-8 bytes: "a" and "b".
Names == {<<97>>, <<98>>}

\* Items an initial region may hold.
StoredTodos ==
    [name : Names, done : BOOLEAN, publish_date : {U64Of(7)}]

\* Sequences over S of length at most n.
SeqsUpTo(S, n) == UNION {[1..k -> S] : k \in 0..n}

\* Storage contents that are not the encoding of a collection: a lone byte, a
\* count of two with no elements, an element whose done byte is 2.
Garbage ==
    {<<255>>,
     Le32(2),
     Le32(1) \o SerString(<<97>>) \o <<2>> \o U64Of(7)}

\* Contents of the storage region handed to the program: empty (never
\* allocated), an encoded collection filling the region exactly or followed
\* by zero bytes, or bytes that are no collection.
Regions ==
    {<<>>}
    \cup {SerTodoAccount(c) \o Zeros(p) : c \in SeqsUpTo(StoredTodos, MaxItems), p \in 0..MaxPad}
    \cup Garbage

\* Owners of the storage region: the program, the system program (an account
\* that was never allocated), another program.
Owners == {program_id, system_program_ID, "other"}

\* Prefixes of a byte sequence, itself and the empty one included.
Prefixes(s) == {SubSeq(s, 1, k) : k \in 0..Len(s)}

\* Well-formed payloads: a tag byte and a Borsh string.
Payload(tag, name) == <<tag>> \o SerString(name)

\* Instruction payloads: well-formed ones for both tags, the same under tags
\* the program does not know, every truncation of these, a string that is not
\* UTF-8, a length no buffer can hold, and a payload with a byte to spare.
Payloads ==
    UNION {Prefixes(Payload(tag, name)) : tag \in {0, 1, 2, 255}, name \in Names}
    \cup {Payload(tag, <<255>>) : tag \in {0, 1}}
    \cup {<<tag, 255, 255, 255, 255, 97>> : tag \in {0, 1}}
    \cup {Payload(tag, <<97>>) \o <<0>> : tag \in {0, 1}}
    \cup {Payload(tag, <<195, 169>>) : tag \in {0, 1}}

\* The account keys an instruction names, in order.
FullAccounts == <<"todo", "payer", system_program_ID, clock_ID>>

AccountLists ==
    Prefixes(FullAccounts)
    \cup {<<"todo", "payer", "other", clock_ID>>,
          <<"todo", "payer", system_program_ID, "other">>,
          <<"todo", "payer", "other", "other">>}

\* Values of Clock::unix_timestamp (an i64).
Timestamps == {7, -1}

\* An instruction as process_instruction receives it.
Instruction(d, a, t) == [data |-> d, accounts |-> a, unix_timestamp |-> t]

Instructions ==
    {Instruction(d, FullAccounts, t) : d \in Payloads, t \in Timestamps}
    \cup {Instruction(Payload(tag, <<97>>), a, 7) : tag \in {0, 1}, a \in AccountLists}

----------------------------------------------------------------------------
(* The state machine.                                                      *)

Init ==
    /\ data \in Regions
    /\ owner \in Owners
    /\ (owner = system_program_ID => data = <<>>)
    /\ ix = Instruction(<<>>, <<>>, 0)
    /\ result = "none"
    /\ buf = data
    /\ pre = data
    /\ pre_owner = owner
    /\ cpi = FALSE

\* One instruction, processed by process_instruction on the region.  The
\* runtime keeps the account as the handler left it when the handler returns
\* Ok and discards the handler's changes when it returns an error.
Transaction(i) ==
    \E r \in {process_instruction(i.accounts, i.data, data, owner, i.unix_timestamp)} :
        /\ ix' = i
        /\ result' = r.res
        /\ buf' = r.buf
        /\ pre' = data
        /\ pre_owner' = owner
        /\ cpi' = r.cpi
        /\ data' = (IF r.res = "Ok" THEN r.buf ELSE data)
        /\ owner' = (IF r.res = "Ok" THEN r.owner ELSE owner)

Next == \E i \in Instructions : Transaction(i)

Spec == Init /\ [][Next]_vars

----------------------------------------------------------------------------
(* What the last instruction was, read off the state.                      *)

Called == result # "none"

\* The instruction that unpack made of the last payload.
last_instruction == unpack(ix.data)

IsNewTodo == Called /\ last_instruction.ok /\ last_instruction.kind = "NewTodo"
IsMarkDone == Called /\ last_instruction.ok /\ last_instruction.kind = "MarkDone"

\* NewTodo with the four account handles it asks for, in order.
WellFormedNewTodo == IsNewTodo /\ ix.accounts = FullAccounts
\* MarkDone with the storage handle.
WellFormedMarkDone == IsMarkDone /\ Len(ix.accounts) >= 1

\* The collection the program reads from the region before and after the call.
pre_account == try_from_slice(pre)
post_account == try_from_slice(data)

\* The item NewTodo makes of the last instruction.
NewItem ==
    [name |-> last_instruction.todo, done |-> FALSE,
     publish_date |-> AsU64(ix.unix_timestamp)]

\* b holds the encoding of collection c, followed by nothing but zero bytes.
Holds(b, c) ==
    /\ Len(b) >= Len(SerTodoAccount(c))
    /\ b = SerTodoAccount(c) \o Zeros(Len(b) - Len(SerTodoAccount(c)))

----------------------------------------------------------------------------
(* C1 (end to end).  NewTodo("Buy groceries") at clock t0 on storage that  *)
(* was never allocated succeeds and leaves the collection                  *)
(* [{name, done = false, t0}]; a MarkDone of that name on the storage so   *)
(* left succeeds and leaves [{name, done = true, t0}].                     *)
C1_EndToEnd ==
    /\ (WellFormedNewTodo /\ pre = <<>>) =>
           /\ result = "Ok"
           /\ post_account.ok
           /\ post_account.todos = <<NewItem>>
    /\ (/\ WellFormedMarkDone
        /\ pre_owner = program_id
        /\ \E d \in {AsU64(t) : t \in Timestamps} :
              Holds(pre, <<[name |-> last_instruction.todo, done |-> FALSE,
                            publish_date |-> d]>>)) =>
           /\ result = "Ok"
           /\ post_account.ok
           /\ Len(post_account.todos) = 1
           /\ post_account.todos[1].done

----------------------------------------------------------------------------
----------------------------------------------------------------------------
(* C3.  NewTodo never rejects a name the collection already holds: on a    *)
(* region of the program that holds a collection, NewTodo(X) succeeds and  *)
(* appends a new entry {X, done = false, now}, also when X is there        *)
(* already; and of two entries named X each can be marked: MarkDone(X) on  *)
(* a collection with an entry named X that is not yet done succeeds.       *)
C3_DuplicateNames ==
    /\ (/\ WellFormedNewTodo
        /\ pre_owner = program_id
        /\ \E c \in SeqsUpTo(StoredTodos, MaxItems) : Holds(pre, c)) =>
           /\ result = "Ok"
           /\ post_account.ok
           /\ \E c \in SeqsUpTo(StoredTodos, MaxItems) :
                 Holds(pre, c) /\ post_account.todos = Append(c, NewItem)
    /\ (/\ WellFormedMarkDone
        /\ pre_owner = program_id
        /\ pre_account.ok
        /\ \E i \in 1..Len(pre_account.todos) :
              /\ pre_account.todos[i].name = last_instruction.todo
              /\ ~pre_account.todos[i].done) =>
           result = "Ok"

----------------------------------------------------------------------------
(* C4.  A MarkDone(X) that succeeds sets done on the first entry named X,  *)
(* which was not done, and on nothing else: the collection keeps its       *)
(* length and order, every other entry (later entries named X included) is *)
(* as it was, and the marked entry keeps its name and created_at.          *)
C4_MarkDoneFrame ==
    (IsMarkDone /\ result = "Ok") =>
        /\ pre_account.ok
        /\ post_account.ok
        /\ Len(post_account.todos) = Len(pre_account.todos)
        /\ \E i \in 1..Len(pre_account.todos) :
              /\ pre_account.todos[i].name = last_instruction.todo
              /\ \A j \in 1..(i - 1) : pre_account.todos[j].name # last_instruction.todo
              /\ ~pre_account.todos[i].done
              /\ post_account.todos[i].done
              /\ post_account.todos[i].name = pre_account.todos[i].name
              /\ post_account.todos[i].publish_date = pre_account.todos[i].publish_date
              /\ \A j \in 1..Len(pre_account.todos) :
                    j # i => post_account.todos[j] = pre_account.todos[j]

\* A successful MarkDone(X) on a collection with two pending entries named X:
\* the first is done afterwards, the second is still pending.
C4_Witness ==
    /\ IsMarkDone
    /\ result = "Ok"
    /\ post_account.ok
    /\ Len(post_account.todos) = 2
    /\ post_account.todos[1].name = last_instruction.todo
    /\ post_account.todos[2].name = last_instruction.todo
    /\ post_account.todos[1].done
    /\ ~post_account.todos[2].done

----------------------------------------------------------------------------
(* C5.  NewTodo(X) at clock t on an empty collection (a region never       *)
(* allocated, or a region of the program that holds the empty collection)  *)
(* succeeds and leaves exactly [{X, done = false, created_at = t}].        *)
C5_AddToEmpty ==
    (/\ WellFormedNewTodo
     /\ \/ pre = <<>>
        \/ pre_owner = program_id /\ Holds(pre, <<>>)) =>
        /\ result = "Ok"
        /\ post_account.ok
        /\ post_account.todos =
               <<[name |-> last_instruction.todo, done |-> FALSE,
                  publish_date |-> AsU64(ix.unix_timestamp)]>>

----------------------------------------------------------------------------
(* C6.  MarkDone of a name that no entry of the program's decodable        *)
(* collection has returns ItemNotFound and leaves the region as it was,    *)
(* byte for byte.                                                          *)
C6_ItemNotFound ==
    (/\ WellFormedMarkDone
     /\ pre_owner = program_id
     /\ pre_account.ok
     /\ \A i \in 1..Len(pre_account.todos) :
           pre_account.todos[i].name # last_instruction.todo) =>
        /\ result = ItemNotFound
        /\ buf = pre
        /\ data = pre

\* MarkDone of an absent name on a collection that is not empty.
C6_Witness ==
    /\ WellFormedMarkDone
    /\ pre_owner = program_id
    /\ pre_account.ok
    /\ Len(pre_account.todos) = 2
    /\ \A i \in 1..2 : pre_account.todos[i].name # last_instruction.todo
    /\ result = ItemNotFound

----------------------------------------------------------------------------
(* C7.  MarkDone of a name whose first entry is done already returns       *)
(* AlreadyDone and leaves the region as it was.                            *)
C7_AlreadyDone ==
    (/\ WellFormedMarkDone
     /\ pre_owner = program_id
     /\ pre_account.ok
     /\ \E i \in 1..Len(pre_account.todos) :
           /\ pre_account.todos[i].name = last_instruction.todo
           /\ \A j \in 1..(i - 1) : pre_account.todos[j].name # last_instruction.todo
           /\ pre_account.todos[i].done) =>
        /\ result = AlreadyDone
        /\ buf = pre
        /\ data = pre

\* MarkDone(X) on [X done, X pending]: rejected, the second X stays pending.
C7_Witness ==
    /\ WellFormedMarkDone
    /\ pre_owner = program_id
    /\ pre_account.ok
    /\ Len(pre_account.todos) = 2
    /\ pre_account.todos[1].name = last_instruction.todo
    /\ pre_account.todos[2].name = last_instruction.todo
    /\ pre_account.todos[1].done
    /\ ~pre_account.todos[2].done
    /\ result = AlreadyDone
    /\ data = pre

----------------------------------------------------------------------------
(* C8.  The codec: tag 0 and a length-prefixed name give NewTodo{name},    *)
(* tag 1 and a length-prefixed name give MarkDone{name}; the empty         *)
(* payload, any other tag and a string cut short give                      *)
(* MalformedInstruction, and then the region is as it was.                 *)

\* Names the payloads of the model carry: "a", "b" and the two-byte "e-acute".
PayloadNames == Names \cup {<<195, 169>>}

\* d starts with tag and the length-prefixed name.
StartsWith(d, tag, name) ==
    /\ Len(d) >= Len(Payload(tag, name))
    /\ SubSeq(d, 1, Len(Payload(tag, name))) = Payload(tag, name)

\* d has tag 0 or 1 and ends before the string its length prefix announces.
Truncated(d) ==
    /\ d # <<>>
    /\ d[1] \in {0, 1}
    /\ \/ Len(d) < 5
       \/ U32(SubSeq(d, 2, 5)) > Len(d) - 5

C8_Codec ==
    Called =>
        /\ \A name \in PayloadNames :
              /\ StartsWith(ix.data, 0, name) =>
                    last_instruction = [ok |-> TRUE, kind |-> "NewTodo", todo |-> name]
              /\ StartsWith(ix.data, 1, name) =>
                    last_instruction = [ok |-> TRUE, kind |-> "MarkDone", todo |-> name]
        /\ (\/ ix.data = <<>>
            \/ ix.data # <<>> /\ ix.data[1] \notin {0, 1}
            \/ Truncated(ix.data)) =>
               /\ ~last_instruction.ok
               /\ result = MalformedInstruction
        /\ ~last_instruction.ok =>
               /\ result = MalformedInstruction
               /\ buf = pre
               /\ data = pre

\* A MarkDone payload whose length prefix announces one byte that is not there,
\* sent to a region holding a collection.
C8_Witness ==
    /\ Called
    /\ ix.data = <<1, 1, 0, 0, 0>>
    /\ result = MalformedInstruction
    /\ pre_account.ok
    /\ Len(pre_account.todos) = 1
    /\ data = pre

----------------------------------------------------------------------------
(* C9.  Round trip: the encoding of a collection decodes to that           *)
(* collection; a region that decodes re-encodes to the same bytes; and     *)
(* what the program has written is what its next read decodes.             *)
C9_RoundTrip ==
    /\ \A c \in SeqsUpTo(StoredTodos, MaxItems) :
          data = SerTodoAccount(c) => (post_account.ok /\ post_account.todos = c)
    /\ post_account.ok => SerTodoAccount(post_account.todos) = data
    /\ result = "Ok" =>
          /\ data = buf
          /\ post_account.ok
          /\ SerTodoAccount(post_account.todos) = buf

\* The program has written a collection of two items of different names.
C9_Witness ==
    /\ result = "Ok"
    /\ post_account.ok
    /\ Len(post_account.todos) = 2
    /\ post_account.todos[1].name # post_account.todos[2].name
    /\ data # pre

----------------------------------------------------------------------------
(* C10.  A call that returns an error has written nothing: the buffer is   *)
(* byte for byte what it was when the call began.                          *)
C10_NoPartialWrite ==
    (Called /\ result # "Ok") => buf = pre

----------------------------------------------------------------------------
(* C11.  done is monotonic: from one state of the storage to the next,     *)
(* whatever instruction is processed and whether it succeeds or fails, an  *)
(* item that is done stays where it is and stays done.                     *)

\* Every done item of the collection in region a is a done item, at the same
\* place and of the same name, of the collection in region b.
DoneKept(a, b) ==
    try_from_slice(a).ok =>
        /\ try_from_slice(b).ok
        /\ Len(try_from_slice(b).todos) >= Len(try_from_slice(a).todos)
        /\ \A i \in 1..Len(try_from_slice(a).todos) :
              try_from_slice(a).todos[i].done =>
                  /\ try_from_slice(b).todos[i].done
                  /\ try_from_slice(b).todos[i].name = try_from_slice(a).todos[i].name

\* pre is the storage of the state before the last instruction, data the
\* storage after it.
C11_DoneMonotonic == DoneKept(pre, data)

\* A successful MarkDone on a collection whose other item was done before:
\* both are done afterwards.
C11_Witness ==
    /\ IsMarkDone
    /\ result = "Ok"
    /\ pre_account.ok
    /\ Len(pre_account.todos) = 2
    /\ pre_account.todos[1].done
    /\ ~pre_account.todos[2].done
    /\ post_account.ok
    /\ post_account.todos[1].done
    /\ post_account.todos[2].done

----------------------------------------------------------------------------
----------------------------------------------------------------------------
(* C13.  Capacity.  Over every instruction the region keeps its length,    *)
(* and a collection the region holds is no longer than the region; a       *)
(* NewTodo whose collection with the new item would be longer than the     *)
(* region does not succeed, and the region it was handed still holds the   *)
(* collection it held, not a cut-off or longer one.                        *)

\* The collection of region a with the item NewTodo makes does not fit in a.
DoesNotFit(a) ==
    /\ try_from_slice(a).ok
    /\ Len(SerTodoAccount(Append(try_from_slice(a).todos, NewItem))) > Len(a)

C13_Capacity ==
    /\ Len(data) = Len(pre)
    /\ Len(buf) = Len(pre)
    /\ post_account.ok => Len(SerTodoAccount(post_account.todos)) <= Len(data)
    /\ (WellFormedNewTodo /\ pre_owner = program_id /\ DoesNotFit(pre)) =>
           /\ result # "Ok"
           /\ data = pre
           /\ try_from_slice(buf) = pre_account

----------------------------------------------------------------------------
(* C14.  Storage that does not decode.  NewTodo, handed its four accounts, *)
(* on a region that is not empty and does not decode as a collection       *)
(* returns CorruptState and changes nothing; MarkDone on a region of the   *)
(* program that does not decode, the empty one included, returns           *)
(* CorruptState and not ItemNotFound, calls no invoke and leaves the       *)
(* region as long as it was and as it was.                                 *)
C14_CorruptState ==
    /\ (WellFormedNewTodo /\ pre # <<>> /\ ~pre_account.ok) =>
           /\ result = CorruptState
           /\ ~cpi
           /\ buf = pre
           /\ data = pre
    /\ (WellFormedMarkDone /\ pre_owner = program_id /\ ~pre_account.ok) =>
           /\ result = CorruptState
           /\ result # ItemNotFound
           /\ ~cpi
           /\ buf = pre
           /\ data = pre

\* MarkDone on an empty region of the program has returned CorruptState.
C14_Witness ==
    /\ WellFormedMarkDone
    /\ pre_owner = program_id
    /\ pre = <<>>
    /\ result = CorruptState
    /\ data = <<>>

----------------------------------------------------------------------------
(* C15.  Accounts.  NewTodo handed fewer than four accounts returns        *)
(* NotEnoughAccountKeys; handed four of which the third is not the system  *)
(* program it returns IncorrectProgramId, the code of an owner mismatch,   *)
(* whatever the fourth is (the clock is not read yet); in both cases       *)
(* invoke is not called and the region is as it was.  MarkDone asks for    *)
(* the storage account alone: handed one account or more it never returns  *)
(* NotEnoughAccountKeys, handed none it does.                              *)
C15_Accounts ==
    /\ (IsNewTodo /\ Len(ix.accounts) < 4) =>
           /\ result = "NotEnoughAccountKeys"
           /\ ~cpi
           /\ buf = pre
           /\ data = pre
    /\ (IsNewTodo /\ Len(ix.accounts) >= 4 /\ ix.accounts[3] # system_program_ID) =>
           /\ result = "IncorrectProgramId"
           /\ result = PermissionDenied
           /\ ~cpi
           /\ buf = pre
           /\ data = pre
    /\ (IsMarkDone /\ Len(ix.accounts) >= 1) => result # "NotEnoughAccountKeys"
    /\ (IsMarkDone /\ Len(ix.accounts) = 0) => result = "NotEnoughAccountKeys"

\* NewTodo on empty storage, handed four accounts of which neither the third
\* is the system program nor the fourth the clock, has returned
\* IncorrectProgramId.
C15_Witness ==
    /\ IsNewTodo
    /\ Len(ix.accounts) = 4
    /\ ix.accounts[3] # system_program_ID
    /\ ix.accounts[4] # clock_ID
    /\ pre = <<>>
    /\ result = "IncorrectProgramId"
    /\ ~cpi
    /\ data = <<>>

----------------------------------------------------------------------------
(* C16.  The code returned tells the error kinds apart.  MarkDone, on a    *)
(* region of the program that decodes, of a name no item has returns a     *)
(* code other than the one a payload that does not parse gets              *)
(* (MalformedInstruction); MarkDone of a name whose first item is done     *)
(* returns a code other than the one a region that does not decode gets    *)
(* (CorruptState).                                                         *)
C16_DistinctCodes ==
    (WellFormedMarkDone /\ pre_owner = program_id /\ pre_account.ok) =>
        /\ find(pre_account.todos, last_instruction.todo) = 0 =>
               /\ result = ItemNotFound
               /\ result # unpack(<<>>).err
               /\ result # MalformedInstruction
        /\ (/\ find(pre_account.todos, last_instruction.todo) # 0
            /\ pre_account.todos[find(pre_account.todos, last_instruction.todo)].done) =>
               /\ result = AlreadyDone
               /\ result # mark_decoded(Bad, last_instruction.todo, pre, pre_owner).res
               /\ result # CorruptState

====
